---- MODULE Spec2Model ----
(***************************************************************************)
(* Model of hunyuan3d_runner.py: the Hunyuan3DRunner class and main().     *)
(* One invocation of the command line is a process occupying a slot; the   *)
(* host (directories, files, local image store, docker binary) is shared.  *)
(* Every external command and every filesystem call of the program is one  *)
(* step; its outcome is chosen from the outcomes the host can produce.     *)
(***************************************************************************)
EXTENDS Integers, Sequences, FiniteSets, TLC

VARIABLES
    proc,         \* slot -> the invocation running (or last run) in it
    dirs,         \* the directories that exist on the host
    files,        \* file path -> [content, by]
    localImages,  \* image references in docker's local store
    dockerBin,    \* is a docker binary on the PATH
    nextRun       \* number of the next invocation

vars == <<proc, dirs, files, localImages, dockerBin, nextRun>>

\* ---------------------------------------------------------------- bounds
MaxRuns == 2

\* ------------------------------------------------------------ the host
Slots == {"A", "B"}

Image == "your_username/hunyuan3d:latest"

Root == <<>>
W1 == <<"data", "w1">>
W2 == <<"data", "w2">>
Workspaces == {W1, W2}

InputName == "input.png"
OutputName == "output_shape.glb"

Cat == <<"pics", "cat.jpg">>
Scan == <<"pics", "scan.bmp">>
Missing == <<"pics", "missing.png">>
Inputs == {Cat, Scan, Missing, W1 \o <<InputName>>}

FilePaths ==
    Inputs \cup {w \o <<InputName>> : w \in Workspaces}
           \cup {w \o <<OutputName>> : w \in Workspaces}

NoFile == [content |-> "none", by |-> 0]

Exists(fs, path) == fs[path].content # "none"

\* What the inference script exports for an input image.
MeshOf(c) ==
    CASE c = "imgCat" -> "meshCat"
      [] c = "imgScan" -> "meshScan"
      [] OTHER -> "none"

Parent(path) == SubSeq(path, 1, Len(path) - 1)

RECURSIVE Ancestors(_)
Ancestors(path) ==
    IF path = Root THEN {Root} ELSE {path} \cup Ancestors(Parent(path))

\* ------------------------------------------- Hunyuan3DRunner.__init__
Runner(test, input, ws, run) ==
    [pc |-> "main", test |-> test, input |-> input, data_dir |-> ws,
     docker_image |-> Image, run |-> run, overlapped |-> FALSE, calls |-> <<>>,
     docker_ok |-> FALSE, image_ok |-> FALSE,
     version |-> "-", gpu |-> "-", listing |-> "-", pull |-> "-", source |-> "-",
     rc |-> -1, wrote |-> FALSE, artifact |-> "-", read |-> NoFile,
     exc |-> "none", report |-> "none", result |-> Root, exit |-> -1]

Idle == [Runner(FALSE, Missing, W1, 0) EXCEPT !.pc = "idle"]

Init ==
    /\ proc = [s \in Slots |-> Idle]
    /\ dirs = {Root, <<"pics">>}
    /\ files = [p \in FilePaths |->
                 CASE p = Cat -> [content |-> "imgCat", by |-> 0]
                   [] p = Scan -> [content |-> "imgScan", by |-> 0]
                   [] OTHER -> NoFile]
    /\ localImages \in {{}, {Image}}
    /\ dockerBin \in BOOLEAN
    /\ nextRun = 1

\* --------------------------------------------------------- how a run ends
Call(p, name) == [p EXCEPT !.calls = Append(@, name)]

\* sys.exit(code): SystemExit is no Exception, main's handler lets it through.
SysExit(p, code) == [p EXCEPT !.pc = "done", !.exit = code, !.exc = "SystemExit"]

InTestBranch(p) == p.pc \in {"t_docker", "t_gpu", "t_images", "t_pull",
                             "t_mkdir", "t_input"}

\* main's `except Exception` around runner.run: print the failure, exit 1.
main_except(p, e) ==
    [p EXCEPT !.pc = "done", !.exit = 1, !.exc = e, !.report = "pipeline_failed"]

\* An exception nobody catches (the test branch has no handler): the
\* interpreter prints a traceback and exits 1.
Uncaught(p, e) ==
    [p EXCEPT !.pc = "done", !.exit = 1, !.exc = e, !.report = "traceback"]

Raise(p, e) == IF InTestBranch(p) THEN Uncaught(p, e) ELSE main_except(p, e)

\* ------------------------------------------------------------------ main
main_entry_full(test) == "r_docker"
main_entry(test) == IF test THEN "t_docker" ELSE "r_docker"

Running(p) == p.pc \notin {"idle", "done"}

\* A new invocation of the command line.  Invocations follow one another
\* (one run per workspace at a time is the documented use); with `overlapping`
\* a second one may be launched while the first is still running.
Launch(s, overlapping, flags) ==
    /\ ~Running(proc[s])
    /\ overlapping \/ \A t \in Slots : ~Running(proc[t])
    /\ s = "B" => proc["A"].pc # "idle"
    /\ nextRun <= MaxRuns
    /\ \E test \in flags, input \in Inputs, ws \in Workspaces :
         LET busy == \E t \in Slots : Running(proc[t])
             new == [Runner(test, input, ws, nextRun)
                       EXCEPT !.pc = main_entry(test), !.overlapped = busy]
         IN  proc' = [t \in Slots |->
                        CASE t = s -> new
                          [] t # s /\ Running(proc[t]) ->
                               [proc[t] EXCEPT !.overlapped = TRUE]
                          [] OTHER -> proc[t]]
    /\ nextRun' = nextRun + 1
    /\ UNCHANGED <<dirs, files, localImages, dockerBin>>

\* An invocation with or without --test.
Start(s, overlapping) == Launch(s, overlapping, BOOLEAN)

\* An invocation without --test that may overlap a running one.
StartFull(s) == Launch(s, TRUE, {FALSE})

\* ------------------------------------------------ check_docker_available
VersionOutcomes == IF dockerBin THEN {"ok", "nonzero"} ELSE {"absent"}

\* True on a zero exit; CalledProcessError and FileNotFoundError give False.
check_docker_available(o) == o = "ok"

\* run(), step 1: `if not self.check_docker_available(): sys.exit(1)`.
run_step1_continue(p, ok) == [p EXCEPT !.pc = "r_gpu"]
run_step1(p, ok) == IF ok THEN [p EXCEPT !.pc = "r_gpu"] ELSE SysExit(p, 1)

\* main's test branch, step 1: `docker_ok = runner.check_docker_available()`.
test_step1(p, ok) == [p EXCEPT !.docker_ok = ok, !.pc = "t_gpu"]

CheckDockerAvailable(s) ==
    /\ proc[s].pc \in {"r_docker", "t_docker"}
    /\ \E o \in VersionOutcomes :
         LET p == [Call(proc[s], "check_docker_available") EXCEPT !.version = o]
             ok == check_docker_available(o)
         IN  proc' = [proc EXCEPT ![s] =
                        IF p.pc = "r_docker" THEN run_step1(p, ok)
                                             ELSE test_step1(p, ok)]
    /\ UNCHANGED <<dirs, files, localImages, dockerBin, nextRun>>

\* --------------------------------------------------- check_gpu_available
GpuOutcomes == {"ok", "nonzero", "absent"}

check_gpu_available(o) == o = "ok"

\* run(), step 2: the result of self.check_gpu_available() is discarded.
run_step2_fatal(p, ok) == IF ok THEN [p EXCEPT !.pc = "r_images"] ELSE SysExit(p, 1)
run_step2(p, ok) == [p EXCEPT !.pc = "r_images"]

test_step2(p, ok) == [p EXCEPT !.pc = "t_images"]

CheckGpuAvailable(s) ==
    /\ proc[s].pc \in {"r_gpu", "t_gpu"}
    /\ \E o \in GpuOutcomes :
         LET p == [Call(proc[s], "check_gpu_available") EXCEPT !.gpu = o]
             ok == check_gpu_available(o)
         IN  proc' = [proc EXCEPT ![s] =
                        IF p.pc = "r_gpu" THEN run_step2(p, ok)
                                          ELSE test_step2(p, ok)]
    /\ UNCHANGED <<dirs, files, localImages, dockerBin, nextRun>>

\* --------------------------------------------- check_docker_image_exists
\* `docker images -q <image>`: the image id when it is in the local store,
\* nothing when it is not, a nonzero exit when the daemon cannot answer, and
\* no process at all without a docker binary.
ListingOutcomes ==
    IF dockerBin
    THEN {IF Image \in localImages THEN "found" ELSE "empty", "error"}
    ELSE {"absent"}

\* What check_docker_image_exists does with the listing: return True, go on
\* to pull_docker_image, return False (CalledProcessError is caught), or let
\* FileNotFoundError through (it is not caught here).
check_docker_image_exists(l) ==
    CASE l = "found" -> "True"
      [] l = "empty" -> "pull"
      [] l = "error" -> "False"
      [] OTHER -> "FileNotFoundError"

\* run(), step 3: `if not self.check_docker_image_exists(): sys.exit(1)`.
run_step3_continue(p, ok) == [p EXCEPT !.pc = "r_mkdir"]
run_step3_retry(p, ok) ==
    IF ok THEN [p EXCEPT !.pc = "r_mkdir"] ELSE [p EXCEPT !.pc = "r_images"]
run_step3(p, ok) == IF ok THEN [p EXCEPT !.pc = "r_mkdir"] ELSE SysExit(p, 1)

\* main's test branch, step 3: `image_ok = runner.check_docker_image_exists()`.
test_step3(p, ok) == [p EXCEPT !.image_ok = ok, !.pc = "t_mkdir"]

ImageResolved(p, full, ok) == IF full THEN run_step3(p, ok) ELSE test_step3(p, ok)

DockerImages(s) ==
    /\ proc[s].pc \in {"r_images", "t_images"}
    /\ \E l \in ListingOutcomes :
         LET full == proc[s].pc = "r_images"
             p == [Call(proc[s], "docker_images") EXCEPT !.listing = l]
             r == check_docker_image_exists(l)
         IN  proc' = [proc EXCEPT ![s] =
                        CASE r = "True" -> ImageResolved(p, full, TRUE)
                          [] r = "False" -> ImageResolved(p, full, FALSE)
                          [] r = "pull" ->
                               [p EXCEPT !.pc = IF full THEN "r_pull" ELSE "t_pull"]
                          [] OTHER -> Raise(p, r)]
    /\ UNCHANGED <<dirs, files, localImages, dockerBin, nextRun>>

\* ---------------------------------------------------- pull_docker_image
PullOutcomes == IF dockerBin THEN {"ok", "nonzero"} ELSE {"absent"}

pull_docker_image_lenient(o) ==
    CASE o \in {"ok", "nonzero"} -> "True"
      [] OTHER -> "FileNotFoundError"

pull_docker_image(o) ==
    CASE o = "ok" -> "True"
      [] o = "nonzero" -> "False"
      [] OTHER -> "FileNotFoundError"

PullDockerImage(s) ==
    /\ proc[s].pc \in {"r_pull", "t_pull"}
    /\ \E o \in PullOutcomes :
         LET full == proc[s].pc = "r_pull"
             p == [Call(proc[s], "docker_pull") EXCEPT !.pull = o]
             r == pull_docker_image(o)
         IN  /\ proc' = [proc EXCEPT ![s] =
                           CASE r = "True" -> ImageResolved(p, full, TRUE)
                             [] r = "False" -> ImageResolved(p, full, FALSE)
                             [] OTHER -> Raise(p, r)]
             /\ localImages' = IF o = "ok" THEN localImages \cup {Image}
                                           ELSE localImages
    /\ UNCHANGED <<dirs, files, dockerBin, nextRun>>

\* ------------------------------------------------- setup_data_directory
\* pathlib.Path.mkdir(parents, exist_ok) on the modelled directory tree.
Mkdir(d, path, parents, exist_ok) ==
    CASE path \in d ->
           IF exist_ok THEN [exc |-> "none", dirs |-> d]
                       ELSE [exc |-> "FileExistsError", dirs |-> d]
      [] path \notin d /\ Parent(path) \in d ->
           [exc |-> "none", dirs |-> d \cup {path}]
      [] OTHER ->
           IF parents THEN [exc |-> "none", dirs |-> d \cup Ancestors(path)]
                      ELSE [exc |-> "FileNotFoundError", dirs |-> d]

\* `self.data_dir.mkdir(parents=True, exist_ok=True)`.
setup_data_directory_once(d, data_dir) == Mkdir(d, data_dir, TRUE, FALSE)
setup_data_directory(d, data_dir) == Mkdir(d, data_dir, TRUE, TRUE)

SetupDataDirectory(s) ==
    /\ proc[s].pc \in {"r_mkdir", "t_mkdir"}
    /\ LET full == proc[s].pc = "r_mkdir"
           p == Call(proc[s], "setup_data_directory")
           r == setup_data_directory(dirs, p.data_dir)
       IN  /\ proc' = [proc EXCEPT ![s] =
                         IF r.exc = "none"
                         THEN [p EXCEPT !.pc = IF full THEN "r_stage" ELSE "t_input"]
                         ELSE Raise(p, r.exc)]
           /\ dirs' = r.dirs
    /\ UNCHANGED <<files, localImages, dockerBin, nextRun>>

\* ------------------------------------------------------ copy_input_image
\* shutil.copy2(src, dst): refuses to copy a file onto itself, needs dst's
\* directory, and otherwise leaves dst with src's bytes; src is not touched.
copy2(fs, d, src, dst, run) ==
    CASE src = dst -> [exc |-> "SameFileError", files |-> fs]
      [] src # dst /\ Parent(dst) \notin d ->
           [exc |-> "FileNotFoundError", files |-> fs]
      [] OTHER ->
           [exc |-> "none",
            files |-> [fs EXCEPT ![dst] = [content |-> fs[src].content, by |-> run]]]

copy_input_image_fixed_dir(fs, d, input_image_path, data_dir, run) ==
    IF ~Exists(fs, input_image_path)
    THEN [exc |-> "FileNotFoundError: Input image not found", files |-> fs]
    ELSE copy2(fs, d, input_image_path, W1 \o <<InputName>>, run)

copy_input_image_truncating(fs, d, input_image_path, data_dir, run) ==
    IF ~Exists(fs, input_image_path)
    THEN [exc |-> "FileNotFoundError: Input image not found",
          files |-> [fs EXCEPT ![data_dir \o <<InputName>>] = NoFile]]
    ELSE copy2(fs, d, input_image_path, data_dir \o <<InputName>>, run)

copy_input_image_unchecked(fs, d, input_image_path, data_dir, run) ==
    IF ~Exists(fs, input_image_path)
    THEN [exc |-> "none", files |-> fs]
    ELSE copy2(fs, d, input_image_path, data_dir \o <<InputName>>, run)

copy_input_image(fs, d, input_image_path, data_dir, run) ==
    IF ~Exists(fs, input_image_path)
    THEN [exc |-> "FileNotFoundError: Input image not found", files |-> fs]
    ELSE copy2(fs, d, input_image_path, data_dir \o <<InputName>>, run)

\* What the path given on the command line is, to this invocation.
SourceKind(fs, p) ==
    CASE ~Exists(fs, p.input) -> "missing"
      [] Exists(fs, p.input) /\ p.input = p.data_dir \o <<InputName>> -> "staged"
      [] OTHER -> "exists"

CopyInputImage(s) ==
    /\ proc[s].pc = "r_stage"
    /\ LET p == [Call(proc[s], "copy_input_image")
                   EXCEPT !.source = SourceKind(files, proc[s])]
           r == copy_input_image(files, dirs, p.input, p.data_dir, p.run)
       IN  /\ proc' = [proc EXCEPT ![s] =
                         IF r.exc = "none" THEN [p EXCEPT !.pc = "r_run"]
                                           ELSE Raise(p, r.exc)]
           /\ files' = r.files
    /\ UNCHANGED <<dirs, localImages, dockerBin, nextRun>>

\* -------------------------------------------------------- generate_shape
\* `docker run --gpus all --rm -v <data_dir>:/data ... python3 -c <script>`:
\* the script reads /data/input.png and exports /data/output_shape.glb.  The
\* container's exit code and whether it got as far as the export are the
\* container's business; it cannot export a mesh without an input image.
ContainerOutcomes(fs, data_dir) ==
    IF ~dockerBin
    THEN {[rc |-> -1, wrote |-> FALSE]}
    ELSE {[rc |-> rc, wrote |-> w] : rc \in {0, 1}, w \in BOOLEAN} \
         {o \in [rc : {0, 1}, wrote : BOOLEAN] :
             o.wrote /\ MeshOf(fs[data_dir \o <<InputName>>].content) = "none"}

\* After subprocess.run(check=True): CalledProcessError is printed and
\* re-raised, a zero exit goes on to the check of the output file.
container_exit_ignored(rc) == "check_output"
container_exit(rc) ==
    CASE rc = 0 -> "check_output"
      [] rc = -1 -> "FileNotFoundError"
      [] OTHER -> "CalledProcessError"

DockerRun(s) ==
    /\ proc[s].pc = "r_run"
    /\ \E o \in ContainerOutcomes(files, proc[s].data_dir) :
         LET staged == files[proc[s].data_dir \o <<InputName>>]
             p == [Call(proc[s], "docker_run")
                     EXCEPT !.rc = o.rc, !.wrote = o.wrote, !.read = staged]
             r == container_exit(o.rc)
         IN  /\ proc' = [proc EXCEPT ![s] =
                           IF r = "check_output" THEN [p EXCEPT !.pc = "r_verify"]
                                                 ELSE Raise(p, r)]
             /\ files' = IF o.wrote
                         THEN [files EXCEPT ![p.data_dir \o <<OutputName>>] =
                                 [content |-> MeshOf(staged.content), by |-> p.run]]
                         ELSE files
    /\ UNCHANGED <<dirs, localImages, dockerBin, nextRun>>

\* `if output_file.exists(): return output_file` / `raise RuntimeError(...)`.
output_check_as_process_error(exists) ==
    IF exists THEN "return" ELSE "CalledProcessError"
output_check(exists) ==
    IF exists THEN "return" ELSE "RuntimeError: Output file was not created"

\* main after runner.run returned: print the output path, fall off the end.
main_completed(p, output_file) ==
    [p EXCEPT !.pc = "done", !.exit = 0, !.result = output_file,
              !.report = "pipeline_completed"]

CheckOutput(s) ==
    /\ proc[s].pc = "r_verify"
    /\ LET output_file == proc[s].data_dir \o <<OutputName>>
           exists == Exists(files, output_file)
           p == [Call(proc[s], "output_exists")
                   EXCEPT !.artifact = IF exists THEN "present" ELSE "absent"]
           r == output_check(exists)
       IN  proc' = [proc EXCEPT ![s] =
                      IF r = "return" THEN main_completed(p, output_file)
                                      ELSE Raise(p, r)]
    /\ UNCHANGED <<dirs, files, localImages, dockerBin, nextRun>>

\* ------------------------------------------- main, test branch, step 5 on
\* `if docker_ok and image_ok:` chooses the verdict; then `return`.
test_verdict_runtime_only(docker_ok, image_ok) ==
    IF docker_ok THEN "checks_passed" ELSE "checks_failed"

test_verdict(docker_ok, image_ok) ==
    IF docker_ok /\ image_ok THEN "checks_passed" ELSE "checks_failed"

TestCheckInput(s) ==
    /\ proc[s].pc = "t_input"
    /\ LET p == [Call(proc[s], "input_exists")
                   EXCEPT !.source = SourceKind(files, proc[s])]
       IN  proc' = [proc EXCEPT ![s] =
                      [p EXCEPT !.pc = "done", !.exit = 0,
                                !.report = test_verdict(p.docker_ok, p.image_ok)]]
    /\ UNCHANGED <<dirs, files, localImages, dockerBin, nextRun>>

\* ----------------------------------------------------------------- Next
Step(s, overlapping) ==
    \/ Start(s, overlapping)
    \/ CheckDockerAvailable(s)
    \/ CheckGpuAvailable(s)
    \/ DockerImages(s)
    \/ PullDockerImage(s)
    \/ SetupDataDirectory(s)
    \/ CopyInputImage(s)
    \/ DockerRun(s)
    \/ CheckOutput(s)
    \/ TestCheckInput(s)

Next == \E s \in Slots : Step(s, FALSE)

Spec == Init /\ [][Next]_vars

\* The same program with overlapping invocations.
NextOverlap == \E s \in Slots : Step(s, TRUE)

SpecOverlap == Init /\ [][NextOverlap]_vars

\* Overlapping full runs only (no --test): the steps of run().
FullStep(s) ==
    \/ StartFull(s)
    \/ CheckDockerAvailable(s)
    \/ CheckGpuAvailable(s)
    \/ DockerImages(s)
    \/ PullDockerImage(s)
    \/ SetupDataDirectory(s)
    \/ CopyInputImage(s)
    \/ DockerRun(s)
    \/ CheckOutput(s)

NextRace == \E s \in Slots : FullStep(s)

SpecRace == Init /\ [][NextRace]_vars

\* ================================================================ claims
Full(p) == p.pc # "idle" /\ ~p.test
Test(p) == p.pc # "idle" /\ p.test
Done(p) == p.pc = "done"
Invoked(p, name) == \E i \in 1..Len(p.calls) : p.calls[i] = name
Latest(p) == p.run = nextRun - 1

\* C1: in a full run whose runtime-version check fails (nonzero exit or no
\* binary), the check is the only step ever invoked - no GPU probe, image
\* resolution, workspace preparation, staging or container - and the process
\* has exited with a nonzero code.
C1_RuntimeCheckFailureAborts ==
    \A s \in Slots :
        LET p == proc[s] IN
        (Full(p) /\ p.version \in {"nonzero", "absent"}) =>
            /\ p.calls = <<"check_docker_available">>
            /\ Done(p)
            /\ p.exit = 1

C1_Witness ==
    \E s, t \in Slots :
        /\ Full(proc[s]) /\ proc[s].version = "nonzero" /\ Done(proc[s])
        /\ proc[s].run = 2 /\ proc[t].run = 1 /\ Invoked(proc[t], "docker_run")

\* C2: a full run whose input path does not exist never invokes the
\* container and, once it has ended, has exited nonzero; when it gets as far
\* as staging, staging fails with the not-found condition and ends the run.
C2_MissingInputNeverRuns ==
    \A s \in Slots :
        LET p == proc[s] IN
        (Full(p) /\ ~Exists(files, p.input)) =>
            /\ ~Invoked(p, "docker_run")
            /\ Done(p) => p.exit = 1
            /\ Invoked(p, "copy_input_image") =>
                 /\ Done(p)
                 /\ p.source = "missing"
                 /\ p.exc = "FileNotFoundError: Input image not found"
                 /\ p.report = "pipeline_failed"

C2_Witness ==
    \E s \in Slots :
        /\ Full(proc[s]) /\ ~Exists(files, proc[s].input)
        /\ Invoked(proc[s], "copy_input_image")
        /\ proc[s].exit = 1

\* C3: a full run whose container exited 0 but left no output_shape.glb ends
\* with exit code 1 and a failure (RuntimeError, "Output file was not
\* created") that differs from the failure of every run whose container
\* exited nonzero (CalledProcessError).
ZeroExitNoOutput(p) == Full(p) /\ p.rc = 0 /\ p.artifact = "absent"
NonzeroExit(p) == Full(p) /\ p.rc = 1

C3_SilentFailureDistinct ==
    \A s \in Slots :
        ZeroExitNoOutput(proc[s]) =>
            /\ Done(proc[s])
            /\ proc[s].exit = 1
            /\ proc[s].report = "pipeline_failed"
            /\ proc[s].exc = "RuntimeError: Output file was not created"
            /\ \A t \in Slots :
                 NonzeroExit(proc[t]) =>
                     /\ proc[t].exit = 1
                     /\ proc[t].exc # proc[s].exc

C3_Witness ==
    \E s, t \in Slots :
        /\ ZeroExitNoOutput(proc[s])
        /\ NonzeroExit(proc[t]) /\ Done(proc[t])

\* C4: an invocation with the test flag never invokes the container, whatever
\* the runtime check, GPU probe, image resolution and input check gave.
C4_TestModeNeverRuns ==
    \A s \in Slots : Test(proc[s]) => ~Invoked(proc[s], "docker_run")

C4_Witness ==
    \E s \in Slots :
        /\ Test(proc[s]) /\ Done(proc[s])
        /\ proc[s].docker_ok /\ proc[s].image_ok
        /\ proc[s].gpu = "ok" /\ proc[s].source = "exists"

\* C5: a full run that finds the image absent locally and whose fetch fails
\* ends right after image resolution with exit code 1: it never prepares the
\* workspace, stages the input or invokes the container, and on a host where
\* it is the only invocation so far its workspace directory does not exist.
C5_FetchFailureAborts ==
    \A s \in Slots :
        LET p == proc[s] IN
        (Full(p) /\ p.listing = "empty" /\ p.pull = "nonzero") =>
            /\ Done(p)
            /\ p.exit = 1
            /\ p.calls = <<"check_docker_available", "check_gpu_available",
                           "docker_images", "docker_pull">>
            /\ (p.run = 1 /\ Latest(p)) =>
                 /\ p.data_dir \notin dirs
                 /\ \A w \in Workspaces :
                      /\ ~Exists(files, w \o <<InputName>>)
                      /\ ~Exists(files, w \o <<OutputName>>)

C5_Witness ==
    \E s \in Slots :
        /\ Full(proc[s]) /\ proc[s].listing = "empty" /\ proc[s].pull = "nonzero"
        /\ proc[s].run = 1 /\ Latest(proc[s])
        /\ proc[s].data_dir \notin dirs

\* C6: for every invocation, with or without the test flag, the exit code is
\* 1 whenever a fatal failure occurred (runtime missing, image unresolvable,
\* staging failure, execution failure, an uncaught exception) and 0 only
\* when none occurred.
FatalFailure(p) ==
    \/ p.version \in {"nonzero", "absent"}
    \/ p.listing \in {"error", "absent"}
    \/ p.pull \in {"nonzero", "absent"}
    \/ Invoked(p, "copy_input_image") /\ p.source \in {"missing", "staged"}
    \/ p.rc = 1
    \/ p.rc = 0 /\ p.artifact = "absent"
    \/ p.exc \notin {"none"}

C6_ExitCodeReflectsFatal ==
    \A s \in Slots :
        Done(proc[s]) =>
            /\ FatalFailure(proc[s]) => proc[s].exit = 1
            /\ proc[s].exit = 0 => ~FatalFailure(proc[s])

\* C6, the part the code keeps: the statement holds of every full run.
C6_FullRunExitCode ==
    \A s \in Slots :
        (Full(proc[s]) /\ Done(proc[s])) =>
            (proc[s].exit = 1 <=> FatalFailure(proc[s]))

\* C6, what the test branch does instead: it exits 0 whenever it reaches its
\* verdict, and 1 only on an exception nobody catches.
C6_TestRunExitCode ==
    \A s \in Slots :
        (Test(proc[s]) /\ Done(proc[s])) =>
            (proc[s].exit = 1 <=> proc[s].exc # "none")

\* C7: the GPU probe's outcome does not influence a full run.  Two finished
\* full runs whose other steps gave the same outcomes wherever both invoked
\* them invoke the same steps in the same order and end with the same exit
\* code and the same failure, whatever their GPU probes gave.
Agree(a, b) == a = "-" \/ b = "-" \/ a = b

SameOtherOutcomes(p, q) ==
    /\ Agree(p.version, q.version)
    /\ Agree(p.listing, q.listing)
    /\ Agree(p.pull, q.pull)
    /\ Agree(p.source, q.source)
    /\ (p.rc = q.rc \/ ~Invoked(p, "docker_run") \/ ~Invoked(q, "docker_run"))
    /\ Agree(p.artifact, q.artifact)

C7_GpuProbeNonInterference ==
    \A s, t \in Slots :
        LET p == proc[s]
            q == proc[t]
        IN  (/\ Full(p) /\ Done(p)
             /\ Full(q) /\ Done(q)
             /\ SameOtherOutcomes(p, q)) =>
                /\ p.calls = q.calls
                /\ p.exit = q.exit
                /\ p.exc = q.exc
                /\ p.report = q.report

C7_Witness ==
    \E s, t \in Slots :
        LET p == proc[s]
            q == proc[t]
        IN  /\ Full(p) /\ Done(p) /\ Full(q) /\ Done(q)
            /\ SameOtherOutcomes(p, q)
            /\ p.gpu = "ok" /\ q.gpu \in {"nonzero", "absent"}
            /\ Invoked(p, "docker_run") /\ Invoked(q, "docker_run")
            /\ p.exit = 0

\* C8: a finished full run reports success - returns
\* <data_dir>/output_shape.glb and exits 0 - exactly when its container
\* exited 0 and output_shape.glb existed when it looked; a nonzero container
\* exit is a failure even with an output file in the workspace.
Success(p) ==
    /\ p.exit = 0
    /\ p.report = "pipeline_completed"
    /\ p.result = p.data_dir \o <<OutputName>>

C8_SuccessIffZeroExitAndOutput ==
    \A s \in Slots :
        LET p == proc[s] IN
        (Full(p) /\ Done(p)) =>
            /\ Success(p) <=> (p.rc = 0 /\ p.artifact = "present")
            /\ ~Success(p) => (p.exit = 1 /\ p.result = Root)
            /\ p.rc = 1 => ~Success(p)
            /\ Latest(p) =>
                 (Success(p) <=>
                    (p.rc = 0 /\ Exists(files, p.data_dir \o <<OutputName>>)))

C8_Witness ==
    \E s, t \in Slots :
        /\ Full(proc[s]) /\ Done(proc[s]) /\ Success(proc[s])
        /\ Full(proc[t]) /\ Done(proc[t]) /\ Latest(proc[t])
        /\ proc[t].rc = 1 /\ proc[t].wrote
        /\ Exists(files, proc[t].data_dir \o <<OutputName>>)

\* C9: workspace preparation never fails; afterwards the workspace directory
\* and its parents exist, no directory has gone and no file has changed; on
\* an existing workspace it changes nothing at all, so preparing twice is the
\* same as preparing once.
MkdirTwice(d, w) ==
    LET once == setup_data_directory(d, w)
        twice == setup_data_directory(once.dirs, w)
    IN  /\ once.exc = "none"
        /\ twice.exc = "none"
        /\ Ancestors(w) \subseteq once.dirs
        /\ twice.dirs = once.dirs

C9_PrepareStep(s) ==
    SetupDataDirectory(s) =>
        /\ proc'[s].exc = "none"
        /\ proc'[s].pc # "done"
        /\ Ancestors(proc[s].data_dir) \subseteq dirs'
        /\ dirs \subseteq dirs'
        /\ files' = files
        /\ proc[s].data_dir \in dirs => dirs' = dirs

C9_PrepareIdempotent ==
    /\ [](\A w \in Workspaces : MkdirTwice(dirs, w))
    /\ [][\A s \in Slots : C9_PrepareStep(s)]_vars

C9_Witness ==
    \E s \in Slots :
        /\ proc[s].pc \in {"r_stage", "t_input"}
        /\ proc[s].run = 2
        /\ Exists(files, proc[s].data_dir \o <<InputName>>)
        /\ Exists(files, proc[s].data_dir \o <<OutputName>>)

\* C10: staging an existing source file - whatever its name and extension,
\* inside or outside the workspace - succeeds, leaves <data_dir>/input.png
\* with the source's content, and leaves the source as it was.
C10_StageStep(s) ==
    (CopyInputImage(s) /\ Exists(files, proc[s].input)) =>
        LET target == proc[s].data_dir \o <<InputName>> IN
        /\ proc'[s].pc = "r_run"
        /\ proc'[s].exc = "none"
        /\ files'[target].content = files[proc[s].input].content
        /\ files'[proc[s].input].content = files[proc[s].input].content
        /\ \A f \in FilePaths \ {target} : files'[f] = files[f]

C10_StagingCopiesAnySource == [][\A s \in Slots : C10_StageStep(s)]_vars

\* C10, the part the code keeps: the statement holds of every existing
\* source other than <data_dir>/input.png itself.
C10_StageOtherStep(s) ==
    (proc[s].input # proc[s].data_dir \o <<InputName>>) => C10_StageStep(s)

C10_StagingCopiesOtherSources == [][\A s \in Slots : C10_StageOtherStep(s)]_vars

\* C11: a full run invokes its steps in the fixed order runtime check, GPU
\* probe, image resolution (listing, then the fetch when needed), workspace
\* preparation, input staging, container execution, result verification.  The
\* container is invoked only after, in the same run, the runtime check and
\* image resolution succeeded, the workspace was prepared and the input was
\* staged; a step that fails fatally is the last step the run invokes.
IsPrefix(a, b) == Len(a) <= Len(b) /\ SubSeq(b, 1, Len(a)) = a

RunOrder ==
    <<"check_docker_available", "check_gpu_available", "docker_images",
      "setup_data_directory", "copy_input_image", "docker_run", "output_exists">>

RunOrderWithPull ==
    <<"check_docker_available", "check_gpu_available", "docker_images",
      "docker_pull", "setup_data_directory", "copy_input_image", "docker_run",
      "output_exists">>

LastCall(p) == IF p.calls = <<>> THEN "-" ELSE p.calls[Len(p.calls)]

EndsAt(p, name) == Done(p) /\ p.exit = 1 /\ LastCall(p) = name

C11_FixedOrderFailFast ==
    \A s \in Slots :
        LET p == proc[s] IN
        Full(p) =>
            /\ IsPrefix(p.calls, RunOrder) \/ IsPrefix(p.calls, RunOrderWithPull)
            /\ Invoked(p, "docker_run") =>
                 /\ p.version = "ok"
                 /\ p.listing = "found" \/ (p.listing = "empty" /\ p.pull = "ok")
                 /\ Invoked(p, "setup_data_directory") /\ p.data_dir \in dirs
                 /\ Invoked(p, "copy_input_image") /\ p.source = "exists"
                 /\ Exists(files, p.data_dir \o <<InputName>>)
            /\ p.version \in {"nonzero", "absent"} =>
                 EndsAt(p, "check_docker_available")
            /\ p.listing \in {"error", "absent"} => EndsAt(p, "docker_images")
            /\ p.pull \in {"nonzero", "absent"} => EndsAt(p, "docker_pull")
            /\ (Invoked(p, "copy_input_image") /\ p.source # "exists") =>
                 EndsAt(p, "copy_input_image")
            /\ (Invoked(p, "docker_run") /\ p.rc # 0) => EndsAt(p, "docker_run")
            /\ p.artifact = "absent" => EndsAt(p, "output_exists")

C11_Witness ==
    \E s, t \in Slots :
        /\ Full(proc[s]) /\ proc[s].calls = RunOrderWithPull /\ proc[s].exit = 0
        /\ Full(proc[t]) /\ proc[t].rc = 1 /\ Done(proc[t])

\* C12: whenever a full run reports success, the output_shape.glb it returns
\* was written by the container of that same run from the input that run
\* staged; an output_shape.glb left by an earlier run never makes a run
\* report success.
C12_SuccessMeansOwnOutput ==
    \A s \in Slots :
        LET p == proc[s] IN
        (Full(p) /\ Done(p) /\ Success(p)) =>
            /\ p.wrote
            /\ p.read.by = p.run
            /\ Latest(p) =>
                 /\ files[p.result].by = p.run
                 /\ files[p.result].content = MeshOf(files[p.input].content)

\* C12, the part the code keeps: a run that succeeds in a workspace holding
\* no output_shape.glb of an earlier run returns its own container's output.
C12_FreshWorkspaceOwnOutput ==
    \A s \in Slots :
        LET p == proc[s] IN
        (Full(p) /\ Done(p) /\ Success(p) /\ Latest(p)) =>
            \/ p.wrote /\ files[p.result].by = p.run
            \/ ~p.wrote /\ files[p.result].by \notin {0, p.run}

\* C13: image resolution returns true exactly when the listing shows the
\* image, or the listing is empty and the fetch exits 0, and then the image
\* is in the local store; the fetch is attempted only right after a listing
\* that completed with empty output, and always then; a failed fetch makes
\* resolution return false, which ends a full run with exit code 1.
ResolutionReturned(p) ==
    p.listing \in {"found", "error"} \/ p.pull \in {"ok", "nonzero"}

\* What the caller got: the test branch keeps it in image_ok, run() exits on
\* False and goes on to prepare the workspace on True.
ResolutionResult(p) ==
    IF p.test THEN p.image_ok
    ELSE ~(Done(p) /\ p.exc = "SystemExit"
              /\ LastCall(p) \in {"docker_images", "docker_pull"})

FetchFollowsListing(p) ==
    \A i \in 1..Len(p.calls) :
        p.calls[i] = "docker_pull" => (i > 1 /\ p.calls[i - 1] = "docker_images")

C13_ImageResolution ==
    \A s \in Slots :
        LET p == proc[s] IN
        /\ ResolutionReturned(p) =>
             /\ ResolutionResult(p) <=>
                  (p.listing = "found" \/ (p.listing = "empty" /\ p.pull = "ok"))
             /\ ResolutionResult(p) => Image \in localImages
        /\ Invoked(p, "docker_pull") <=> (p.listing = "empty" /\ p.pull # "-")
        /\ p.listing = "empty" =>
             (p.pull # "-" \/ p.pc \in {"r_pull", "t_pull"})
        /\ FetchFollowsListing(p)
        /\ (Full(p) /\ p.pull = "nonzero") => (Done(p) /\ p.exit = 1)

C13_Witness ==
    \E s, t \in Slots :
        /\ proc[s].listing = "empty" /\ proc[s].pull = "ok"
        /\ proc[s].pc \in {"r_mkdir", "t_mkdir"}
        /\ Done(proc[t]) /\ proc[t].pull = "nonzero" /\ Full(proc[t])

\* C14: no retries - in one invocation, full run or test mode, each external
\* command (runtime version query, GPU probe, image listing, image fetch,
\* container run) is executed at most once, whatever its outcome.
Count(p, name) == Cardinality({i \in 1..Len(p.calls) : p.calls[i] = name})

ExternalCommands ==
    {"check_docker_available", "check_gpu_available", "docker_images",
     "docker_pull", "docker_run"}

C14_NoRetries ==
    \A s \in Slots : \A c \in ExternalCommands : Count(proc[s], c) <= 1

C14_Witness ==
    \E s, t \in Slots :
        /\ Full(proc[s]) /\ Done(proc[s]) /\ proc[s].pull = "nonzero"
        /\ Count(proc[s], "docker_pull") = 1
        /\ Full(proc[t]) /\ Done(proc[t]) /\ proc[t].rc = 1
        /\ Count(proc[t], "docker_run") = 1

\* C15: overlapping full runs on one workspace race - a run can report
\* success with an artifact generated from the other run's input, its staged
\* input.png having been overwritten between its staging and its container
\* reading it (C15_Witness) - whereas a run that did not overlap another one,
\* and runs on distinct workspaces, never have their container read an
\* input.png staged by another run.
Raced(p) == Full(p) /\ Invoked(p, "docker_run") /\ p.read.by # p.run

C15_RaceOnlyOnSharedWorkspace ==
    \A s \in Slots :
        LET p == proc[s] IN
        Raced(p) =>
            /\ p.overlapped
            /\ \A t \in Slots :
                 proc[t].run = p.read.by =>
                     /\ t # s
                     /\ Full(proc[t])
                     /\ proc[t].overlapped
                     /\ proc[t].data_dir = p.data_dir
                     /\ Invoked(proc[t], "copy_input_image")

C15_Witness ==
    \E s, t \in Slots :
        LET p == proc[s]
            q == proc[t]
        IN  /\ Raced(p) /\ Done(p) /\ Success(p) /\ p.wrote
            /\ q.run = p.read.by /\ q.data_dir = p.data_dir
            /\ p.read.content = files[q.input].content
            /\ p.read.content # files[p.input].content
            /\ files[p.result] =
                 [content |-> MeshOf(files[q.input].content), by |-> p.run]

\* C16: a test-mode invocation runs the runtime check, the GPU probe, image
\* resolution, workspace preparation and the input-existence check, each
\* exactly once and in that order, whatever the earlier ones gave (runtime
\* command failing or binary absent, no GPU, image unresolvable), and never
\* stages the input.
TestOrder ==
    <<"check_docker_available", "check_gpu_available", "docker_images",
      "setup_data_directory", "input_exists">>

TestOrderWithPull ==
    <<"check_docker_available", "check_gpu_available", "docker_images",
      "docker_pull", "setup_data_directory", "input_exists">>

C16_TestModeRunsAllChecks ==
    \A s \in Slots :
        LET p == proc[s] IN
        Test(p) =>
            /\ IsPrefix(p.calls, TestOrder) \/ IsPrefix(p.calls, TestOrderWithPull)
            /\ Done(p) => p.calls \in {TestOrder, TestOrderWithPull}
            /\ ~Invoked(p, "copy_input_image")
            /\ files[p.data_dir \o <<InputName>>].by # p.run

\* C16, the part the code keeps: with a docker binary on the host every
\* test-mode invocation runs all five checks in order, and no test-mode
\* invocation ever stages the input.
C16_TestModeWithDockerBinary ==
    \A s \in Slots :
        LET p == proc[s] IN
        Test(p) =>
            /\ IsPrefix(p.calls, TestOrder) \/ IsPrefix(p.calls, TestOrderWithPull)
            /\ (Done(p) /\ dockerBin) => p.calls \in {TestOrder, TestOrderWithPull}
            /\ ~Invoked(p, "copy_input_image")
            /\ files[p.data_dir \o <<InputName>>].by # p.run

\* C17: a test-mode invocation that reaches its verdict prints "all checks
\* passed" exactly when the runtime check and image resolution both returned
\* success; two such invocations with the same runtime and image outcomes
\* print the same verdict whatever the GPU probe and the input check gave.
ReachedVerdict(p) ==
    Test(p) /\ Done(p) /\ p.report \in {"checks_passed", "checks_failed"}

ImageOutcomeOk(p) == p.listing = "found" \/ (p.listing = "empty" /\ p.pull = "ok")

C17_TestVerdict ==
    \A s \in Slots :
        LET p == proc[s] IN
        /\ (Test(p) /\ Invoked(p, "input_exists")) => ReachedVerdict(p)
        /\ ReachedVerdict(p) =>
             /\ p.report = "checks_passed" <=> (p.version = "ok" /\ ImageOutcomeOk(p))
             /\ p.exit = 0
             /\ \A t \in Slots :
                  (/\ ReachedVerdict(proc[t])
                   /\ proc[t].version = p.version
                   /\ ImageOutcomeOk(proc[t]) <=> ImageOutcomeOk(p)) =>
                      proc[t].report = p.report

C17_Witness ==
    \E s, t \in Slots :
        /\ ReachedVerdict(proc[s]) /\ proc[s].report = "checks_passed"
        /\ proc[s].gpu = "absent" /\ proc[s].source = "missing"
        /\ ReachedVerdict(proc[t]) /\ proc[t].report = "checks_failed"
        /\ proc[t].gpu = "ok" /\ proc[t].source = "exists"
        /\ proc[t].version = "ok"

\* C18: when staging fails because the input path does not exist, the
\* workspace is left as it was before the call: no file (an input.png staged
\* by an earlier run, an existing output_shape.glb) and no directory
\* changes, and the workspace directory exists, created by the preceding
\* step of the same run.
C18_FailedStageStep(s) ==
    (CopyInputImage(s) /\ ~Exists(files, proc[s].input)) =>
        /\ files' = files
        /\ dirs' = dirs
        /\ proc[s].data_dir \in dirs
        /\ LastCall(proc[s]) = "setup_data_directory"
        /\ proc'[s].exc = "FileNotFoundError: Input image not found"
        /\ proc'[s].pc = "done"

C18_FailedStagingLeavesWorkspace == [][\A s \in Slots : C18_FailedStageStep(s)]_vars

C18_Witness ==
    \E s \in Slots :
        LET p == proc[s] IN
        /\ Full(p) /\ Done(p) /\ Latest(p)
        /\ LastCall(p) = "copy_input_image" /\ p.source = "missing"
        /\ files[p.data_dir \o <<InputName>>].by \notin {0, p.run}
        /\ files[p.data_dir \o <<OutputName>>].by \notin {0, p.run}

====
